---- MODULE Spec2Model ----
(***************************************************************************)
(* Model of the Yokis USB driver (src/src/yokis.ts), its buffer helpers    *)
(* (utils.ts) and the Homebridge platform that drives it (platform.ts,     *)
(* platformAccessory.ts).                                                   *)
(*                                                                          *)
(* Buffers and JavaScript strings are sequences of byte values 0..127 (the  *)
(* 7-bit range, where Buffer.toString() and Buffer.from(string) are the     *)
(* identity on code units).                                                 *)
(***************************************************************************)
EXTENDS Integers, Sequences, FiniteSets, TLC

(***************************************************************************)
(* Bounds of the model                                                      *)
(***************************************************************************)
\* number of order/status calls the accessories issue in one run
NumTasks == 3
\* payload-carrying fragments the dongle emits during one reassembly call
MaxFragments == 2
\* lengths of the module ids of the configured devices: a status command of
\* two packets, of three packets
ModuleIdLengths == {2, 66}
\* longest module id of the query strings buildCommand is applied to on its own
MaxIdLength == 12

(***************************************************************************)
(* Program constants                                                        *)
(***************************************************************************)
YOKIS_PACKET_SIZE == 64
\* loop bound of getJSONResponse: for (let i = 0; i < 15; i++)
JSON_MAX_ITERATIONS == 15
\* firmware version from which the unlock handshake is required
UNLOCK_MIN_VERSION == 1255

YOKIS_SERVER_XML_SEPARATOR == <<0, 0, 0, 1, 0, 1, 0>>
YOKIS_NEXT_COMMAND_XML_SEPARATOR == <<0, 0, 1, 0, 0, 0>>
YOKIS_NEXT_BUFFER_HEADER == <<24, 85, 18, 7, 24, 0, 0>>

\* 'command.xml', 'server.xml', 'info.xml'
COMMAND_XML == <<99, 111, 109, 109, 97, 110, 100, 46, 120, 109, 108>>
SERVER_XML == <<115, 101, 114, 118, 101, 114, 46, 120, 109, 108>>
INFO_XML == <<105, 110, 102, 111, 46, 120, 109, 108>>

(***************************************************************************)
(* Buffer primitives                                                        *)
(***************************************************************************)
Zeros(n) == [k \in 1..n |-> 0]

\* Buffer.concat([b], totalLength): truncated or zero-padded to totalLength
BufferConcat(b, totalLength) ==
    IF Len(b) >= totalLength THEN SubSeq(b, 1, totalLength)
    ELSE b \o Zeros(totalLength - Len(b))

\* b.slice(start) for start >= 0
Slice(b, start) == SubSeq(b, start + 1, Len(b))

\* b.slice(0, end), a negative end counting from the end of b
SliceTo(b, end) ==
    LET e == IF end < 0 THEN Len(b) + end ELSE end
    IN  IF e <= 0 THEN <<>> ELSE SubSeq(b, 1, IF e > Len(b) THEN Len(b) ELSE e)

RECURSIVE BitXor(_, _)
BitXor(a, b) ==
    IF a = 0 THEN b
    ELSE IF b = 0 THEN a
    ELSE (((a % 2) + (b % 2)) % 2) + (2 * BitXor(a \div 2, b \div 2))

\* the characters the regular expression dot does not match
LineTerminators == {10, 13}

\* does word occur in s at (1-based) position p
OccursAt(s, word, p) ==
    /\ p >= 1
    /\ p + Len(word) - 1 <= Len(s)
    /\ \A k \in 1..Len(word) : s[p + k - 1] = word[k]

\* s.match(/.*word.*/)
Contains(s, word) == \E p \in 1..Len(s) : OccursAt(s, word, p)

\* s.match(/.*word.*c.*/): word, then c later on the same line
MatchWordThen(s, word, c) ==
    \E p \in 1..Len(s) :
        /\ OccursAt(s, word, p)
        /\ \E q \in (p + Len(word))..Len(s) :
              /\ s[q] = c
              /\ \A r \in (p + Len(word))..(q - 1) : s[r] \notin LineTerminators

(***************************************************************************)
(* utils.ts                                                                 *)
(***************************************************************************)
\* crc ^= buffer.readUInt8(i) over the bytes lo..hi; xor is associative, so the
\* running value is computed by halves
RECURSIVE XorRange(_, _, _)
XorRange(buffer, lo, hi) ==
    IF lo > hi THEN 0
    ELSE IF lo = hi THEN buffer[lo] % 256
    ELSE BitXor(XorRange(buffer, lo, (lo + hi) \div 2),
                XorRange(buffer, ((lo + hi) \div 2) + 1, hi))

XorBytes(buffer, n) == XorRange(buffer, 1, n)

\* a checksum that takes in the first byte as well
crcOverWholeInput(input) == XorBytes(input, Len(input))

crcCalculation(input) ==
    LET size == IF Len(input) < 64 THEN YOKIS_PACKET_SIZE ELSE Len(input)
        \* input.copy(buffer, 0, 1, input.length)
        buffer == [k \in 1..size |-> IF k <= Len(input) - 1 THEN input[k + 1] ELSE 0]
    IN  XorBytes(buffer, size - 1)

\* 0-based index of the last 0x0 of input, -1 when there is none
LastIndexOfZero(input) ==
    LET at == {k \in 1..Len(input) : input[k] = 0}
    IN  IF at = {} THEN -1 ELSE (CHOOSE k \in at : \A j \in at : j <= k) - 1

RECURSIVE trimBuffer(_)
trimBuffer(input) ==
    IF LastIndexOfZero(input) # -1 /\ LastIndexOfZero(input) > 0
    THEN trimBuffer(SliceTo(input, LastIndexOfZero(input)))
    ELSE input

\* length of the longest prefix of s the pattern .{1,chunkSize} matches
DotRun(s, chunkSize) ==
    LET limit == IF Len(s) < chunkSize THEN Len(s) ELSE chunkSize
        stops == {k \in 1..limit : s[k] \in LineTerminators}
    IN  IF stops = {} THEN limit
        ELSE (CHOOSE k \in stops : \A m \in stops : k <= m) - 1

\* buffer.toString().match(/.{1,chunkSize}/g) ?? []
RECURSIVE RegexChunks(_, _)
RegexChunks(s, chunkSize) ==
    IF s = <<>> THEN <<>>
    ELSE IF DotRun(s, chunkSize) = 0 THEN RegexChunks(Tail(s), chunkSize)
    ELSE <<SubSeq(s, 1, DotRun(s, chunkSize))>>
            \o RegexChunks(Slice(s, DotRun(s, chunkSize)), chunkSize)

getChunkedBuffer(buffer, chunkSize) ==
    LET bufferMatches == RegexChunks(buffer, chunkSize)
    IN  [index \in 1..Len(bufferMatches) |->
            IF index > 1 THEN <<7>> \o bufferMatches[index] ELSE bufferMatches[index]]

(***************************************************************************)
(* JSON.parse on the documents the dongle sends: objects, arrays, strings   *)
(* without escapes, integers and the three literals.  A value is a tagged   *)
(* tuple; a parse result is [pos |-> position after the value, val], with   *)
(* pos = 0 for a SyntaxError.                                               *)
(***************************************************************************)
JsonWhitespace == {9, 10, 13, 32}
Digits == 48..57
ParseFail == [pos |-> 0, val |-> <<>>]

RECURSIVE SkipWs(_, _)
SkipWs(s, p) == IF p <= Len(s) /\ s[p] \in JsonWhitespace THEN SkipWs(s, p + 1) ELSE p

\* position of the closing quote of the string whose characters start at p, or 0
RECURSIVE StringEnd(_, _)
StringEnd(s, p) ==
    IF p > Len(s) THEN 0
    ELSE IF s[p] = 34 THEN p
    ELSE IF s[p] < 32 \/ s[p] = 92 THEN 0
    ELSE StringEnd(s, p + 1)

ParseString(s, p) ==
    IF p > Len(s) \/ s[p] # 34 THEN ParseFail
    ELSE LET e == StringEnd(s, p + 1)
         IN  IF e = 0 THEN ParseFail
             ELSE [pos |-> e + 1, val |-> <<"str", SubSeq(s, p + 1, e - 1)>>]

RECURSIVE DigitsEnd(_, _)
DigitsEnd(s, p) == IF p <= Len(s) /\ s[p] \in Digits THEN DigitsEnd(s, p + 1) ELSE p

ParseNumber(s, p) ==
    LET d == IF p <= Len(s) /\ s[p] = 45 THEN p + 1 ELSE p
        e == DigitsEnd(s, d)
    IN  IF e = d THEN ParseFail
        ELSE IF s[d] = 48 /\ e > d + 1 THEN ParseFail
        ELSE [pos |-> e, val |-> <<"num", SubSeq(s, p, e - 1)>>]

ParseLiteral(s, p, word) ==
    IF OccursAt(s, word, p) THEN [pos |-> p + Len(word), val |-> <<"lit", word>>]
    ELSE ParseFail

RECURSIVE ParseValue(_, _), ParseMembers(_, _, _), ParseElements(_, _, _)
ParseValue(s, p0) ==
    LET p == SkipWs(s, p0)
    IN  IF p > Len(s) THEN ParseFail
        ELSE IF s[p] = 123 THEN
            IF SkipWs(s, p + 1) <= Len(s) /\ s[SkipWs(s, p + 1)] = 125
            THEN [pos |-> SkipWs(s, p + 1) + 1, val |-> <<"obj", <<>>>>]
            ELSE ParseMembers(s, p + 1, <<>>)
        ELSE IF s[p] = 91 THEN
            IF SkipWs(s, p + 1) <= Len(s) /\ s[SkipWs(s, p + 1)] = 93
            THEN [pos |-> SkipWs(s, p + 1) + 1, val |-> <<"arr", <<>>>>]
            ELSE ParseElements(s, p + 1, <<>>)
        ELSE IF s[p] = 34 THEN ParseString(s, p)
        ELSE IF s[p] = 45 \/ s[p] \in Digits THEN ParseNumber(s, p)
        ELSE IF s[p] = 116 THEN ParseLiteral(s, p, <<116, 114, 117, 101>>)
        ELSE IF s[p] = 102 THEN ParseLiteral(s, p, <<102, 97, 108, 115, 101>>)
        ELSE IF s[p] = 110 THEN ParseLiteral(s, p, <<110, 117, 108, 108>>)
        ELSE ParseFail

\* the members of an object from position p on, up to and including its brace
ParseMembers(s, p, acc) ==
    LET k == ParseString(s, SkipWs(s, p))
        c == SkipWs(s, k.pos)
        v == ParseValue(s, c + 1)
        n == SkipWs(s, v.pos)
    IN  IF k.pos = 0 \/ c > Len(s) \/ s[c] # 58 THEN ParseFail
        ELSE IF v.pos = 0 \/ n > Len(s) THEN ParseFail
        ELSE IF s[n] = 125 THEN
            [pos |-> n + 1, val |-> <<"obj", Append(acc, <<k.val[2], v.val>>)>>]
        ELSE IF s[n] = 44 THEN ParseMembers(s, n + 1, Append(acc, <<k.val[2], v.val>>))
        ELSE ParseFail

\* the elements of an array from position p on, up to and including its bracket
ParseElements(s, p, acc) ==
    LET v == ParseValue(s, p)
        n == SkipWs(s, v.pos)
    IN  IF v.pos = 0 \/ n > Len(s) THEN ParseFail
        ELSE IF s[n] = 93 THEN [pos |-> n + 1, val |-> <<"arr", Append(acc, v.val)>>]
        ELSE IF s[n] = 44 THEN ParseElements(s, n + 1, Append(acc, v.val))
        ELSE ParseFail

\* JSON.parse(text): the whole text is one value
JSONparse(text) ==
    LET r == ParseValue(text, 1)
    IN  IF r.pos # 0 /\ SkipWs(text, r.pos) = Len(text) + 1 THEN r ELSE ParseFail

\* json.<key> of a parsed value: the last member of that name, <<>> for undefined
JsonField(val, key) ==
    IF val = <<>> \/ val[1] # "obj" THEN <<>>
    ELSE LET at == {k \in 1..Len(val[2]) : val[2][k][1] = key}
         IN  IF at = {} THEN <<>>
             ELSE val[2][CHOOSE k \in at : \A j \in at : j <= k][2]

(***************************************************************************)
(* yokis.ts: cleanBufferData and buildCommand                               *)
(***************************************************************************)
\* the characters of the class [\s\uFEFF\xA0\0] that lie in the 7-bit range
TrimChars == {0, 9, 10, 11, 12, 13, 32}

TrimLeft(s) ==
    LET kept == {k \in 1..Len(s) : s[k] \notin TrimChars}
    IN  IF kept = {} THEN <<>>
        ELSE SubSeq(s, CHOOSE k \in kept : \A m \in kept : k <= m, Len(s))
TrimRight(s) ==
    LET kept == {k \in 1..Len(s) : s[k] \notin TrimChars}
    IN  IF kept = {} THEN <<>>
        ELSE SubSeq(s, 1, CHOOSE k \in kept : \A m \in kept : k >= m)

\* Remove command name, if any
RemoveCommandName(input) ==
    IF Contains(input, COMMAND_XML)
    THEN Slice(input, Len(YOKIS_NEXT_BUFFER_HEADER)
                        + Len(YOKIS_NEXT_COMMAND_XML_SEPARATOR) + Len(COMMAND_XML))
    ELSE IF Contains(input, SERVER_XML)
    THEN Slice(input, Len(YOKIS_NEXT_BUFFER_HEADER)
                        + Len(YOKIS_SERVER_XML_SEPARATOR) + Len(SERVER_XML))
    ELSE input

cleanBufferData(input0) ==
    LET \* Always remove first byte
        input1 == Slice(input0, 1)
        input2 == RemoveCommandName(input1)
        \* Process input depending on the last byte (if = 0x0)
        input3 ==
            IF input2 # <<>> /\ input2[Len(input2)] = 0
            THEN SliceTo(trimBuffer(input2), Len(trimBuffer(input2)) - 1)
            ELSE input2
    IN  TrimRight(TrimLeft(input3))

\* the least element of a non-empty set of numbers
Minimum(set) == CHOOSE k \in set : \A m \in set : k <= m

\* the pieces of s between the separator bytes; at is the set of the
\* positions of the separator in s
RECURSIVE SplitOn(_, _)
SplitAt(s, sep, at) ==
    IF at = {} THEN <<s>>
    ELSE <<SubSeq(s, 1, Minimum(at) - 1)>> \o SplitOn(Slice(s, Minimum(at)), sep)
SplitOn(s, sep) == SplitAt(s, sep, {k \in 1..Len(s) : s[k] = sep})

\* new URLSearchParams(queryString).get(name): the value of the first pair of
\* that name, <<-1>> standing for null
FirstNamed(pairs, name, named) ==
    IF named = {} THEN <<-1>> ELSE Slice(pairs[Minimum(named)], Len(name) + 1)
QueryGetIn(pairs, name) ==
    FirstNamed(pairs, name,
               {k \in 1..Len(pairs) : pairs[k] # <<>> /\ SplitOn(pairs[k], 61)[1] = name})
QueryGet(queryString, name) == QueryGetIn(SplitOn(queryString, 38), name)

\* 7 bytes, depending on the command name
BufferHeader(xmlPath, action) ==
    IF xmlPath = COMMAND_XML
    THEN IF action = <<111, 114, 100, 101, 114>> THEN <<63, 85, 16, 7, 63>>
         ELSE <<63, 85, 16, 7, 70>>
    ELSE IF xmlPath = SERVER_XML THEN <<42, 85, 16, 7, 42>>
    ELSE <<25, 85, 16, 7, 25>>

\* header (7 bytes), command name (13 bytes), separator (4 bytes), query string
BufferToSend(xmlPath, queryString, action) ==
    BufferConcat(BufferHeader(xmlPath, action), 7) \o BufferConcat(xmlPath, 13)
        \o <<1, 0, 1, 0>> \o queryString

\* a command that is never forced to the packet size
WithCrcUnforced(bufferToSend, forced) ==
    bufferToSend \o <<0, crcCalculation(bufferToSend)>>

\* a command that is always forced to the packet size
WithCrcAlwaysForced(bufferToSend, forced) ==
    BufferConcat(bufferToSend \o <<0, crcCalculation(bufferToSend)>>, YOKIS_PACKET_SIZE)

\* Buffer.concat([bufferToSend, Buffer.from([0x0, crc])], packetSize), the
\* packet size forced to 64 for the order action alone
WithCrc(bufferToSend, forced) ==
    IF forced
    THEN BufferConcat(bufferToSend \o <<0, crcCalculation(bufferToSend)>>, YOKIS_PACKET_SIZE)
    ELSE bufferToSend \o <<0, crcCalculation(bufferToSend)>>

\* a builder that takes every action it does not know for getstatus
BuildForAnyAction(xmlPath, queryString, action) ==
    IF xmlPath \notin {COMMAND_XML, SERVER_XML, INFO_XML}
    THEN [ok |-> FALSE, error |-> "Unknown xmlPath into buildCommand: ", buffer |-> <<>>]
    ELSE [ok |-> TRUE, error |-> "",
          buffer |-> WithCrc(BufferToSend(xmlPath, queryString, action),
                             xmlPath = COMMAND_XML /\ action = <<111, 114, 100, 101, 114>>)]

BuildFor(xmlPath, queryString, action) ==
    IF /\ xmlPath = COMMAND_XML
       /\ action # <<111, 114, 100, 101, 114>>
       /\ action # <<103, 101, 116, 115, 116, 97, 116, 117, 115>>
    THEN [ok |-> FALSE, error |-> "Unknown action into buildCommand: ", buffer |-> <<>>]
    ELSE IF xmlPath \notin {COMMAND_XML, SERVER_XML, INFO_XML}
    THEN [ok |-> FALSE, error |-> "Unknown xmlPath into buildCommand: ", buffer |-> <<>>]
    ELSE [ok |-> TRUE, error |-> "",
          buffer |-> WithCrc(BufferToSend(xmlPath, queryString, action),
                             xmlPath = COMMAND_XML /\ action = <<111, 114, 100, 101, 114>>)]

\* the buffer buildCommand returns, or the error it throws
buildCommand(xmlPath, queryString) ==
    BuildFor(xmlPath, queryString, QueryGet(queryString, <<97, 99, 116, 105, 111, 110>>))

\* the local bufferToSend of buildCommand(xmlPath, queryString)
bufferToSendOf(xmlPath, queryString) ==
    BufferToSend(xmlPath, queryString, QueryGet(queryString, <<97, 99, 116, 105, 111, 110>>))

(***************************************************************************)
(* yokis.ts: the version pattern of getVersion                              *)
(***************************************************************************)
AllDigits(s, p, n) == \A k \in p..(p + n - 1) : k <= Len(s) /\ s[k] \in Digits

\* fV([0-9]{4})([0-9]{2})\/([0-9]{2})\/([0-9]{4}) occurs in s at position p
VersionAt(s, p) ==
    /\ OccursAt(s, <<102, 86>>, p)
    /\ p + 15 <= Len(s)
    /\ AllDigits(s, p + 2, 6)
    /\ s[p + 8] = 47
    /\ AllDigits(s, p + 9, 2)
    /\ s[p + 11] = 47
    /\ AllDigits(s, p + 12, 4)

RECURSIVE parseInt(_)
parseInt(digits) ==
    IF digits = <<>> THEN 0
    ELSE (10 * parseInt(SubSeq(digits, 1, Len(digits) - 1))) + (digits[Len(digits)] - 48)

\* version.match(versionRegex): the position the pattern is found at, 0 for null.
\* The match starts on the line of the first occurrence and the leading greedy
\* .* takes the last occurrence on that line.
VersionFound(s) ==
    LET occ == {p \in 1..Len(s) : VersionAt(s, p)}
        first == CHOOSE p \in occ : \A q \in occ : p <= q
        sameLine == {p \in occ : \A r \in first..p : s[r] \notin LineTerminators}
    IN  IF occ = {} THEN 0 ELSE CHOOSE p \in sameLine : \A q \in sameLine : q <= p

\* the number of days of month m (1..12) of year y
DaysInMonth(y, m) ==
    IF m = 2
    THEN IF (y % 4 = 0 /\ y % 100 # 0) \/ y % 400 = 0 THEN 29 ELSE 28
    ELSE IF m \in {4, 6, 9, 11} THEN 30 ELSE 31

\* day d counted from the first of month m of year y, carried into the
\* months before or after when it is outside of the month
RECURSIVE RollDays(_, _, _)
RollDays(y, m, d) ==
    IF d < 1
    THEN IF m = 1 THEN RollDays(y - 1, 12, d + 31)
         ELSE RollDays(y, m - 1, d + DaysInMonth(y, m - 1))
    ELSE IF d > DaysInMonth(y, m)
    THEN IF m = 12 THEN RollDays(y + 1, 1, d - 31)
         ELSE RollDays(y, m + 1, d - DaysInMonth(y, m))
    ELSE <<y, m, d>>

\* new Date(year, monthIndex, day) as the calendar date <<year, month, day>>
\* it denotes, month 1 being January: monthIndex counts from 0, a year below
\* 100 is taken in the 1900s, values out of range carry over
JsDate(year, monthIndex, day) ==
    RollDays((IF year <= 99 THEN 1900 + year ELSE year) + (monthIndex \div 12),
             (monthIndex % 12) + 1, day)

\* { firmwareVersion, firmwareDate }
FirmwareInfos(s, p) ==
    <<"firmware", parseInt(SubSeq(s, p + 2, p + 5)),
      JsDate(parseInt(SubSeq(s, p + 12, p + 15)), parseInt(SubSeq(s, p + 9, p + 10)),
             parseInt(SubSeq(s, p + 6, p + 7)))>>

(***************************************************************************)
(* The dongle: the frames it answers an inbound read with                   *)
(***************************************************************************)
\* a response frame carrying the command.xml marker: the marker byte that
\* follows the 24-byte preamble, the payload and its trailer byte
CommandFrame(marker, payload) ==
    BufferConcat(YOKIS_NEXT_BUFFER_HEADER \o COMMAND_XML \o YOKIS_NEXT_COMMAND_XML_SEPARATOR
                    \o <<marker>> \o payload, YOKIS_PACKET_SIZE)

ServerFrame(marker, payload) ==
    BufferConcat(YOKIS_NEXT_BUFFER_HEADER \o SERVER_XML \o YOKIS_SERVER_XML_SEPARATOR
                    \o <<marker>> \o payload, YOKIS_PACKET_SIZE)

\* a frame without marker: a framing byte, then the payload and its trailer
PlainFrame(payload) == BufferConcat(<<1>> \o payload, YOKIS_PACKET_SIZE)

\* command.xml ... k : the acknowledgement of a command
FrameAck == CommandFrame(107, <<>>)
\* command.xml ... o : the dongle is still carrying data
FrameMore == CommandFrame(111, <<>>)
\* {"status":"success","data":{"state":1  -- the first fragment of a document
FrameFirst ==
    CommandFrame(1, <<123, 34, 115, 116, 97, 116, 117, 115, 34, 58, 34, 115, 117, 99,
                      99, 101, 115, 115, 34, 44, 34, 100, 97, 116, 97, 34, 58, 123, 34,
                      115, 116, 97, 116, 101, 34, 58, 49, 42>>)
\* {"status":"fail","ErrorCode":68}  -- a whole document in one frame
FrameErrorDoc ==
    CommandFrame(1, <<123, 34, 115, 116, 97, 116, 117, 115, 34, 58, 34, 102, 97, 105,
                      108, 34, 44, 34, 69, 114, 114, 111, 114, 67, 111, 100, 101, 34, 58,
                      54, 56, 125, 42>>)
\* }}  -- the closing fragment
FrameClose == PlainFrame(<<125, 125, 42>>)
\* 1   -- a continuation fragment that leaves the document open
FrameDigit == PlainFrame(<<49, 42>>)
\* 64 null bytes
FrameEmpty == Zeros(YOKIS_PACKET_SIZE)
\* fV125401/03/2022 and fV125501/03/2022
FrameVersion1254 ==
    PlainFrame(<<102, 86, 49, 50, 53, 52, 48, 49, 47, 48, 51, 47, 50, 48, 50, 50>>)
FrameVersion1255 ==
    PlainFrame(<<102, 86, 49, 50, 53, 53, 48, 49, 47, 48, 51, 47, 50, 48, 50, 50>>)
\* fV154201/03/2022
FrameVersion1542 ==
    PlainFrame(<<102, 86, 49, 53, 52, 50, 48, 49, 47, 48, 51, 47, 50, 48, 50, 50>>)
\* an echo that carries server-xml in the place of server.xml
FrameServerEchoDash ==
    BufferConcat(YOKIS_NEXT_BUFFER_HEADER \o <<115, 101, 114, 118, 101, 114, 45, 120, 109, 108>>
                    \o YOKIS_SERVER_XML_SEPARATOR \o <<107>>, YOKIS_PACKET_SIZE)
\* the echo of server.xml, and the bodies {"status":"success"} and {"status":"fail"}
FrameServerEcho == ServerFrame(107, <<>>)
FrameServerSuccess ==
    ServerFrame(1, <<123, 34, 115, 116, 97, 116, 117, 115, 34, 58, 34, 115, 117, 99, 99,
                     101, 115, 115, 34, 125, 42>>)
FrameServerFail ==
    ServerFrame(1, <<123, 34, 115, 116, 97, 116, 117, 115, 34, 58, 34, 102, 97, 105, 108,
                     34, 125, 42>>)

\* what the dongle may answer to the read a call is waiting on
DeviceReplies(pc) ==
    CASE pc = "gv_read"  -> {FrameVersion1254, FrameVersion1255, FrameVersion1542,
                             FrameEmpty}
      [] pc = "uk_read1" -> {FrameServerEcho, FrameServerEchoDash, FrameEmpty}
      [] pc = "uk_read2" -> {FrameServerSuccess, FrameServerFail, FrameEmpty}
      [] pc = "ack_read" -> {FrameAck, FrameMore}
      [] pc = "js_read"  -> {FrameMore, FrameFirst, FrameErrorDoc, FrameClose,
                             FrameDigit, FrameEmpty}
      [] OTHER -> {}

\* result.toString().match(/.*command\.xml.*o.*/): the "carrying more data" marker
CarryingMoreData(frame) == MatchWordThen(frame, COMMAND_XML, 111)
\* result.toString().match(/.*command\.xml.*{.*/): the first fragment of a document
FirstJsonPart(frame) == MatchWordThen(frame, COMMAND_XML, 123)
\* result.toString().match(/.*command\.xml.*k.*/): the acknowledgement marker
Acknowledged(frame) == MatchWordThen(frame, COMMAND_XML, 107)
\* result.toString().match(/.*server.xml.*/), its dot unescaped
ServerXmlLoose(frame) ==
    \E p \in 1..Len(frame) :
        /\ OccursAt(frame, <<115, 101, 114, 118, 101, 114>>, p)
        /\ p + 6 <= Len(frame) /\ frame[p + 6] \notin LineTerminators
        /\ OccursAt(frame, <<120, 109, 108>>, p + 7)

\* the faults a transfer callback reports (err.message)
TransferErrors == {"LIBUSB_TRANSFER_TIMED_OUT", "LIBUSB_TRANSFER_ERROR"}

(***************************************************************************)
(* State                                                                    *)
(***************************************************************************)
VARIABLES
    platform,       \* discoverDevices: [pc, firmwareInfos, accessories]
    lockHolder,     \* the call inside lock.acquire('yokis-usb', ...), or NoTask
    lockQueue,      \* the calls lock.acquire has queued, oldest first
    call,           \* call[t]: the locals and the promise of device operation t
    transferOrder,  \* owner of each run of consecutive physical transfers
    unit            \* a helper function applied on its own: [fn, pc, args, out]

vars == <<platform, lockHolder, lockQueue, call, transferOrder, unit>>

\* call 0 is the one init() makes (getVersion, then unlockKey); calls
\* 1..NumTasks are the order/status calls, numbered in the order of arrival
InitTask == 0
ClientTasks == 1..NumTasks
Tasks == 0..NumTasks
NoTask == -1

ToggleKinds == {"toggleLight", "toggleOn", "toggleOff"}
ClientKinds == ToggleKinds \cup {"getModuleStatus"}

\* a module id of n digits: '1', '12', '123', ...
ModuleIdOfLength(n) == [k \in 1..n |-> 48 + (k % 10)]

\* config.accessories: the configurations the plugin is started with, each the
\* module ids of its devices
ConfigAccessories == {<<ModuleIdOfLength(n)>> : n \in ModuleIdLengths}

Undefined == <<>>
\* the JavaScript value null
JsNull == <<"lit", <<110, 117, 108, 108>>>>

\* pc of a call: where it is suspended.  "idle": not issued; "queued": inside
\* lock.acquire, waiting; "x_cmd" / "x_read" / "x_drain": a commandTransfer,
\* a content interruptTransfer, a drain interruptTransfer is in flight;
\* "settled": its promise is settled and the awaiting caller has not resumed
\* yet; "done": the caller has resumed.
InFlightCmd == {"gv_cmd", "uk_cmd1", "uk_cmd2", "tg_cmd", "ms_cmd", "js_cmd"}
InFlightRead == {"gv_read", "uk_read1", "uk_read2", "ack_read", "js_read"}
InFlightDrain == {"gv_drain", "uk_drain1", "uk_drain2", "ack_drain", "js_drain"}
InFlight == InFlightCmd \cup InFlightRead \cup InFlightDrain

NewCall ==
    [kind |-> "none", moduleId |-> <<>>, pc |-> "idle",
     sent |-> 0,             \* command packets of bufferDataChunks submitted
     result |-> <<>>,        \* the frame of the last content read
     i |-> 0,                \* loop counter of getJSONResponse
     jsonResult |-> <<>>,    \* accumulation buffer of getJSONResponse
     requeries |-> 0,        \* re-query command transfers getJSONResponse sent
     fragments |-> 0,        \* fragments getJSONResponse has accumulated
     lastDelay |-> 0,        \* ms waited between the last completion and this transfer
     state |-> "pending",    \* of the promise the operation returned
     value |-> Undefined, error |-> ""]

\* the query string of an order/status operation:
\* action=order&id=<id>&order=default|on|off, action=getstatus&id=<id>&type=4&correct=1
QueryString(kind, moduleId) ==
    CASE kind = "toggleLight" ->
            <<97, 99, 116, 105, 111, 110, 61, 111, 114, 100, 101, 114, 38, 105, 100, 61>>
                \o moduleId
                \o <<38, 111, 114, 100, 101, 114, 61, 100, 101, 102, 97, 117, 108, 116>>
      [] kind = "toggleOn" ->
            <<97, 99, 116, 105, 111, 110, 61, 111, 114, 100, 101, 114, 38, 105, 100, 61>>
                \o moduleId \o <<38, 111, 114, 100, 101, 114, 61, 111, 110>>
      [] kind = "toggleOff" ->
            <<97, 99, 116, 105, 111, 110, 61, 111, 114, 100, 101, 114, 38, 105, 100, 61>>
                \o moduleId \o <<38, 111, 114, 100, 101, 114, 61, 111, 102, 102>>
      [] kind = "getModuleStatus" ->
            <<97, 99, 116, 105, 111, 110, 61, 103, 101, 116, 115, 116, 97, 116, 117, 115,
              38, 105, 100, 61>>
                \o moduleId
                \o <<38, 116, 121, 112, 101, 61, 52, 38, 99, 111, 114, 114, 101, 99, 116,
                     61, 49>>

\* the command buffer an order/status operation builds before taking the lock
BufferData(kind, moduleId) == buildCommand(COMMAND_XML, QueryString(kind, moduleId))

ModuleIds == UNION {{config[k] : k \in 1..Len(config)} : config \in ConfigAccessories}

\* BufferData and the chunks of the status command, computed once per device
BufferDataOf ==
    [kind \in ClientKinds |-> [moduleId \in ModuleIds |-> BufferData(kind, moduleId)]]
bufferDataChunksOf ==
    [moduleId \in ModuleIds |->
        getChunkedBuffer(BufferDataOf["getModuleStatus"][moduleId].buffer,
                         YOKIS_PACKET_SIZE)]
bufferDataChunks(c) == bufferDataChunksOf[c.moduleId]

\* what the operations compute from a frame, computed once per frame of the dongle
AllFrames == UNION {DeviceReplies(pc) : pc \in InFlightRead}
cleanBufferDataOf == [frame \in AllFrames |-> cleanBufferData(frame)]
CarryingMoreDataOf == [frame \in AllFrames |-> CarryingMoreData(frame)]
FirstJsonPartOf == [frame \in AllFrames |-> FirstJsonPart(frame)]
AcknowledgedOf == [frame \in AllFrames |-> Acknowledged(frame)]

\* the texts getJSONResponse can accumulate from at most n fragments, and
\* JSON.parse of each of them
RECURSIVE AccumulationsOf(_)
AccumulationsOf(n) ==
    IF n = 0 THEN {<<>>}
    ELSE AccumulationsOf(n - 1)
            \cup {text \o cleanBufferDataOf[frame] :
                        text \in AccumulationsOf(n - 1), frame \in DeviceReplies("js_read")}
Accumulations == AccumulationsOf(MaxFragments)
JSONparseOf == [text \in Accumulations |-> JSONparse(text)]
\* try { JSON.parse(jsonResult) } catch { return false } return true
canBeParsedAsJSON(jsonResult) == JSONparseOf[jsonResult].pos # 0

(***************************************************************************)
(* The promise of a call                                                    *)
(***************************************************************************)
Resolve(c, v) == [c EXCEPT !.pc = "settled", !.state = "resolved", !.value = v]
\* a fault unwinds the body: only the fault is left of the call
Reject(c, e) ==
    [NewCall EXCEPT !.kind = c.kind, !.moduleId = c.moduleId, !.pc = "settled",
                    !.state = "rejected", !.error = e]

\* throw new Error('Something went wrong, result: ' + result.toString())
UnexpectedResponse(c) ==
    [Reject(c, "Something went wrong, result: ") EXCEPT !.result = c.result]

(***************************************************************************)
(* lock.acquire('yokis-usb', fn): the body fn of each operation, from its   *)
(* start up to the first transfer it submits                                *)
(***************************************************************************)
StartBody(c) ==
    CASE c.kind = "getVersion" -> [c EXCEPT !.pc = "gv_cmd", !.lastDelay = 0]
      [] c.kind = "unlockKey" -> [c EXCEPT !.pc = "uk_cmd1", !.lastDelay = 0]
      [] c.kind \in ToggleKinds -> [c EXCEPT !.pc = "tg_cmd", !.lastDelay = 20]
      [] c.kind = "getModuleStatus" ->
            IF Len(bufferDataChunks(c)) = 0
            THEN [c EXCEPT !.pc = "ack_read", !.lastDelay = 100]
            ELSE [c EXCEPT !.pc = "ms_cmd", !.sent = 1, !.lastDelay = 0]

\* transferOrder after call t submits a transfer
Recorded(order, t) ==
    IF order # <<>> /\ order[Len(order)] = t THEN order ELSE Append(order, t)

\* a lock that hands over to the call that arrived last
NextInQueueNewest(queue) == queue[Len(queue)]

\* the call the lock hands over to when its holder leaves
NextInQueue(queue) == Head(queue)

\* an operation whose body runs without waiting for the lock
AcquireUnlocked(t, c) ==
    /\ lockHolder' = t
    /\ lockQueue' = lockQueue
    /\ call' = [call EXCEPT ![t] = StartBody(c)]
    /\ transferOrder' = Recorded(transferOrder, t)

\* call t, in state c, asks for the lock
Acquire(t, c) ==
    IF lockHolder = NoTask
    THEN /\ lockHolder' = t
         /\ lockQueue' = lockQueue
         /\ call' = [call EXCEPT ![t] = StartBody(c)]
         /\ transferOrder' = Recorded(transferOrder, t)
    ELSE /\ lockHolder' = lockHolder
         /\ lockQueue' = Append(lockQueue, t)
         /\ call' = [call EXCEPT ![t] = [c EXCEPT !.pc = "queued"]]
         /\ transferOrder' = transferOrder

\* the body of call t has finished (c is settled): the lock is released, and
\* handed to the oldest queued call, whose body starts
Release(t, c) ==
    IF lockQueue = <<>>
    THEN /\ lockHolder' = NoTask
         /\ lockQueue' = lockQueue
         /\ call' = [call EXCEPT ![t] = c]
         /\ transferOrder' = transferOrder
    ELSE LET n == NextInQueue(lockQueue)
         IN  /\ lockHolder' = n
             /\ lockQueue' = SelectSeq(lockQueue, LAMBDA q : q # n)
             /\ call' = [call EXCEPT ![t] = c, ![n] = StartBody(call[n])]
             /\ transferOrder' = Recorded(transferOrder, n)

\* a locked section that gives the lock back only when its body returns
ProceedLeakingLock(t, c) ==
    IF c.pc = "settled" /\ c.state = "resolved" THEN Release(t, c)
    ELSE /\ call' = [call EXCEPT ![t] = c]
         /\ transferOrder' = IF c.pc = "settled" THEN transferOrder
                              ELSE Recorded(transferOrder, t)
         /\ UNCHANGED <<lockHolder, lockQueue>>

\* call t moves to c: it has either submitted its next transfer or settled
Proceed(t, c) ==
    IF c.pc = "settled" THEN Release(t, c)
    ELSE /\ call' = [call EXCEPT ![t] = c]
         /\ transferOrder' = Recorded(transferOrder, t)
         /\ UNCHANGED <<lockHolder, lockQueue>>

\* promise continuations run before any timer or transfer callback
NoContinuationPending == \A t \in Tasks : call[t].pc # "settled"

(***************************************************************************)
(* yokis.ts: the bodies of the operations, one step per completed transfer  *)
(***************************************************************************)
\* getJSONResponse returns (after the loop), and the operation that called it
\* waits 50 ms and returns the value
JsonAfterLoop(c) ==
    Resolve([c EXCEPT !.lastDelay = 50],
            IF canBeParsedAsJSON(c.jsonResult) THEN JSONparseOf[c.jsonResult].val
            ELSE JsNull)

\* a loop that stops one turn early
JsonContinueOneShort(c, delay) ==
    IF c.i + 1 < JSON_MAX_ITERATIONS - 1
    THEN [c EXCEPT !.i = c.i + 1, !.pc = "js_cmd", !.requeries = c.requeries + 1,
                   !.lastDelay = delay]
    ELSE JsonAfterLoop([c EXCEPT !.i = c.i + 1])

\* the next turn of the for loop, after waiting delay ms
JsonContinue(c, delay) ==
    IF c.i + 1 < JSON_MAX_ITERATIONS
    THEN [c EXCEPT !.i = c.i + 1, !.pc = "js_cmd", !.requeries = c.requeries + 1,
                   !.lastDelay = delay]
    ELSE JsonAfterLoop([c EXCEPT !.i = c.i + 1])

\* the accumulation after the fragment of frame has been taken in
Accumulate(jsonResult, frame) == jsonResult \o cleanBufferDataOf[frame]

\* is the fragment of frame one the loop adds to the accumulation
Accumulated(c, frame) ==
    ~CarryingMoreDataOf[frame] /\ (FirstJsonPartOf[frame] \/ Len(c.jsonResult) > 0)

\* a loop that takes a frame it cannot use for one that carries more data
JsonIterationTolerant(c) ==
    LET appended == [c EXCEPT !.jsonResult = Accumulate(c.jsonResult, c.result),
                              !.fragments = c.fragments + 1]
    IN  IF Accumulated(c, c.result)
        THEN IF canBeParsedAsJSON(appended.jsonResult) THEN JsonAfterLoop(appended)
             ELSE JsonContinue(appended, IF FirstJsonPartOf[c.result] THEN 250 ELSE 0)
        ELSE JsonContinue(c, 250)

\* a loop that looks for the opening brace before the carrying-more-data marker
JsonIterationBraceFirst(c) ==
    LET appended == [c EXCEPT !.jsonResult = Accumulate(c.jsonResult, c.result),
                              !.fragments = c.fragments + 1]
    IN  IF FirstJsonPartOf[c.result] \/ (~CarryingMoreDataOf[c.result] /\ Len(c.jsonResult) > 0)
        THEN IF canBeParsedAsJSON(appended.jsonResult) THEN JsonAfterLoop(appended)
             ELSE JsonContinue(appended, IF FirstJsonPartOf[c.result] THEN 250 ELSE 0)
        ELSE IF ~CarryingMoreDataOf[c.result]
        THEN UnexpectedResponse(c)
        ELSE JsonContinue(c, 250)

\* the part of one loop turn that follows the two reads
JsonIteration(c) ==
    LET appended == [c EXCEPT !.jsonResult = Accumulate(c.jsonResult, c.result),
                              !.fragments = c.fragments + 1]
    IN  IF ~CarryingMoreDataOf[c.result] /\ FirstJsonPartOf[c.result]
        THEN \* First JSON part
             IF canBeParsedAsJSON(appended.jsonResult) THEN JsonAfterLoop(appended)
             ELSE JsonContinue(appended, 250)
        ELSE IF ~CarryingMoreDataOf[c.result] /\ Len(c.jsonResult) > 0
        THEN \* Next JSON parts (concat)
             IF canBeParsedAsJSON(appended.jsonResult) THEN JsonAfterLoop(appended)
             ELSE JsonContinue(appended, 0)
        ELSE IF ~CarryingMoreDataOf[c.result]
        THEN UnexpectedResponse(c)
        ELSE JsonContinue(c, 250)

\* getJSONResponse is entered, delay ms after the drain read of the caller
JsonStart(c, delay) ==
    [c EXCEPT !.i = 0, !.jsonResult = <<>>, !.pc = "js_cmd", !.requeries = 1,
              !.fragments = 0, !.lastDelay = delay]

getJSONResponse(t) ==
    /\ NoContinuationPending
    /\ \/ /\ call[t].pc = "js_cmd"
          /\ Proceed(t, [call[t] EXCEPT !.pc = "js_read", !.lastDelay = 100])
       \/ /\ call[t].pc = "js_read"
          /\ \E frame \in DeviceReplies("js_read") :
                /\ Accumulated(call[t], frame) => call[t].fragments < MaxFragments
                /\ Proceed(t, [call[t] EXCEPT
                        !.pc = "js_drain", !.result = frame, !.lastDelay = 0])
       \/ /\ call[t].pc = "js_drain"
          /\ Proceed(t, JsonIteration(call[t]))
    /\ UNCHANGED <<platform, unit>>

\* operations that call getJSONResponse whatever the acknowledgement read returned
AckStepsUnchecked(t, delay) ==
    \/ /\ call[t].pc = "ack_read"
       /\ \E frame \in DeviceReplies("ack_read") :
             Proceed(t, [call[t] EXCEPT !.pc = "ack_drain", !.result = frame,
                                        !.lastDelay = 0])
    \/ /\ call[t].pc = "ack_drain"
       /\ Proceed(t, JsonStart(call[t], delay))

\* the acknowledgement read, its drain read and the test of the marker, which
\* the three toggles and getModuleStatus share; delay is what the operation
\* waits before it calls getJSONResponse
AckSteps(t, delay) ==
    \/ /\ call[t].pc = "ack_read"
       /\ \E frame \in DeviceReplies("ack_read") :
             Proceed(t, [call[t] EXCEPT !.pc = "ack_drain", !.result = frame,
                                        !.lastDelay = 0])
    \/ /\ call[t].pc = "ack_drain"
       /\ Proceed(t, IF ~AcknowledgedOf[call[t].result]
                     THEN UnexpectedResponse(call[t])
                     ELSE JsonStart(call[t], delay))

\* the locked section the three orders share word for word
OrderSteps(t) ==
    \/ /\ call[t].pc = "tg_cmd"
       /\ Proceed(t, [call[t] EXCEPT !.pc = "ack_read", !.lastDelay = 100])
    \/ AckSteps(t, 100)

toggleLight(t) ==
    /\ NoContinuationPending
    /\ call[t].kind = "toggleLight"
    /\ OrderSteps(t)
    /\ UNCHANGED <<platform, unit>>

toggleOn(t) ==
    /\ NoContinuationPending
    /\ call[t].kind = "toggleOn"
    /\ OrderSteps(t)
    /\ UNCHANGED <<platform, unit>>

toggleOff(t) ==
    /\ NoContinuationPending
    /\ call[t].kind = "toggleOff"
    /\ OrderSteps(t)
    /\ UNCHANGED <<platform, unit>>

getModuleStatus(t) ==
    /\ NoContinuationPending
    /\ call[t].kind = "getModuleStatus"
    /\ \/ /\ call[t].pc = "ms_cmd"
          /\ Proceed(t, IF call[t].sent < Len(bufferDataChunks(call[t]))
                        THEN [call[t] EXCEPT !.sent = @ + 1, !.lastDelay = 25]
                        ELSE [call[t] EXCEPT !.pc = "ack_read", !.lastDelay = 125])
       \/ AckSteps(t, 0)
    /\ UNCHANGED <<platform, unit>>

getVersion(t) ==
    /\ NoContinuationPending
    /\ \/ /\ call[t].pc = "gv_cmd"
          /\ Proceed(t, [call[t] EXCEPT !.pc = "gv_read", !.lastDelay = 100])
       \/ /\ call[t].pc = "gv_read"
          /\ \E version \in DeviceReplies("gv_read") :
                Proceed(t, IF VersionFound(version) = 0
                           THEN Reject(call[t], "Unable to parse response for getVersion: ")
                           ELSE [call[t] EXCEPT
                                    !.pc = "gv_drain", !.result = version, !.lastDelay = 0,
                                    !.value = FirmwareInfos(version, VersionFound(version))])
       \/ /\ call[t].pc = "gv_drain"
          /\ Proceed(t, Resolve([call[t] EXCEPT !.lastDelay = 50], call[t].value))
    /\ UNCHANGED <<platform, unit>>

\* JSON.parse(this.cleanBufferData(result)) for the frames the second read of
\* unlockKey can return
UnlockJsonOf == [frame \in DeviceReplies("uk_read2") |-> JSONparse(cleanBufferData(frame))]

\* what unlockKey makes of the frame its locked section returned
UnlockResult(c) ==
    LET json == UnlockJsonOf[c.result]
        status == JsonField(json.val, <<115, 116, 97, 116, 117, 115>>)
    IN  IF ~Contains(c.result, SERVER_XML) THEN UnexpectedResponse(c)
        ELSE IF json.pos = 0 THEN Reject(c, "SyntaxError")
        ELSE IF json.val = JsNull THEN Reject(c, "TypeError")
        ELSE Resolve([c EXCEPT !.lastDelay = 50],
                     <<"unlock", status = <<"str", <<115, 117, 99, 99, 101, 115, 115>>>>>>)

unlockKey(t) ==
    /\ NoContinuationPending
    /\ \/ /\ call[t].pc \in {"uk_cmd1", "uk_cmd2"}
          /\ Proceed(t, [call[t] EXCEPT
                            !.pc = IF @ = "uk_cmd1" THEN "uk_read1" ELSE "uk_read2",
                            !.lastDelay = 100])
       \/ /\ call[t].pc \in {"uk_read1", "uk_read2"}
          /\ \E frame \in DeviceReplies(call[t].pc) :
                Proceed(t, [call[t] EXCEPT
                               !.pc = IF @ = "uk_read1" THEN "uk_drain1" ELSE "uk_drain2",
                               !.result = frame, !.lastDelay = 0])
       \/ /\ call[t].pc = "uk_drain1"
          /\ Proceed(t, IF ~ServerXmlLoose(call[t].result)
                        THEN UnexpectedResponse(call[t])
                        ELSE [call[t] EXCEPT !.pc = "uk_cmd2", !.lastDelay = 100])
       \/ /\ call[t].pc = "uk_drain2"
          /\ Proceed(t, UnlockResult(call[t]))
    /\ UNCHANGED <<platform, unit>>

\* a transport that submits the transfer again when it fails
TransferRetried(c, err) == [c EXCEPT !.lastDelay = 0]

\* if (err) return reject(err): the awaiting operation has no handler, the
\* fault leaves it
TransferFailed(c, err) == Reject(c, err)

\* commandTransfer / interruptTransfer: the callback reports err; the promise
\* of the transfer is rejected and the fault leaves the operation
TransferRejected(t) ==
    /\ NoContinuationPending
    /\ call[t].pc \in InFlight
    /\ \E err \in TransferErrors : Proceed(t, TransferFailed(call[t], err))
    /\ UNCHANGED <<platform, unit>>

(***************************************************************************)
(* The buffer each transfer is submitted with                               *)
(***************************************************************************)
\* getVersion: Buffer.concat([Buffer.from([0x07, 0x55, 0x80, 0xff, 0x07, 0x00,
\* 0x01, 0x2c])], YOKIS_PACKET_SIZE)
VersionCommand == BufferConcat(<<7, 85, 128, 255, 7, 0, 1, 44>>, YOKIS_PACKET_SIZE)
\* unlockKey: buildCommand('server.xml', 'unlockcode=0xB001')
UnlockCommand ==
    buildCommand(SERVER_XML, <<117, 110, 108, 111, 99, 107, 99, 111, 100, 101, 61, 48,
                               120, 66, 48, 48, 49>>).buffer
\* unlockKey: the empty server.xml
EmptyServerCommand ==
    BufferConcat(YOKIS_NEXT_BUFFER_HEADER \o SERVER_XML \o <<0, 0, 0, 1, 0, 0, 0, 11>>,
                 YOKIS_PACKET_SIZE)
\* getJSONResponse: the re-query, command.xml followed by 'i'
RequeryCommand ==
    BufferConcat(YOKIS_NEXT_BUFFER_HEADER \o COMMAND_XML \o YOKIS_NEXT_COMMAND_XML_SEPARATOR
                    \o <<105>>, YOKIS_PACKET_SIZE)
\* interruptTransfer(): data = Buffer.alloc(YOKIS_PACKET_SIZE)
ReadBuffer == Zeros(YOKIS_PACKET_SIZE)

\* a status packet sent as the chunk is
ChunkUnpadded(chunk) == chunk

\* getModuleStatus: Buffer.concat([bufferDataChunks[i]], YOKIS_PACKET_SIZE)
ChunkPacket(chunk) == BufferConcat(chunk, YOKIS_PACKET_SIZE)

\* the packets of the status command of each device
ChunkPacketsOf ==
    [moduleId \in ModuleIds |->
        [index \in 1..Len(bufferDataChunksOf[moduleId]) |->
            ChunkPacket(bufferDataChunksOf[moduleId][index])]]

\* the data of the transfer call c has in flight
Submitted(c) ==
    CASE c.pc = "gv_cmd" -> VersionCommand
      [] c.pc = "uk_cmd1" -> UnlockCommand
      [] c.pc = "uk_cmd2" -> EmptyServerCommand
      [] c.pc = "tg_cmd" -> BufferDataOf[c.kind][c.moduleId].buffer
      [] c.pc = "ms_cmd" -> ChunkPacketsOf[c.moduleId][c.sent]
      [] c.pc = "js_cmd" -> RequeryCommand
      [] OTHER -> ReadBuffer

(***************************************************************************)
(* platform.ts, platformAccessory.ts and init() of yokis.ts                 *)
(***************************************************************************)
\* platform: where discoverDevices() and the init() it awaits are suspended
\* (pc), the local firmwareInfos of init(), the accessories created, the
\* error discoverDevices() caught (error), the state of the callback given to
\* device.reset() (resetCallback) and the ms init() has waited after the
\* reset (waited)
\* and of the driver object: its device ("none", "open", "closed"), its
\* interface ("none", "open", "released"), its field hasDetachedKernelDriver,
\* and the kernel driver of the interface on the host (kernelDriver: "none"
\* when none is bound or the host is win32, "active", "detached", "attached")
NewPlatform ==
    [pc |-> "start", firmwareInfos |-> Undefined, accessories |-> Undefined,
     error |-> "", resetCallback |-> "none", waited |-> 0,
     device |-> "none", interface |-> "none", hasDetachedKernelDriver |-> FALSE,
     kernelDriver |-> "none"]

\* an unlock that spares the first firmware that needs it
NeedsUnlockAbove(firmwareInfos) ==
    firmwareInfos # Undefined /\ firmwareInfos[2] > UNLOCK_MIN_VERSION

\* firmwareInfos && firmwareInfos.firmwareVersion >= 1255
NeedsUnlock(firmwareInfos) ==
    firmwareInfos # Undefined /\ firmwareInfos[2] >= UNLOCK_MIN_VERSION

\* initUsbDevice(): the device and its interface are found, or it throws;
\* an active kernel driver is detached
initUsbDevice ==
    /\ platform.pc = "start"
    /\ \E found \in BOOLEAN :
          platform' = IF found
                      THEN [platform EXCEPT
                                !.pc = "opened", !.device = "open", !.interface = "open",
                                !.kernelDriver = IF @ = "active" THEN "detached" ELSE @]
                      ELSE [platform EXCEPT !.pc = "stopped",
                                            !.error = "Unable to find Yokis USB/Yokey"]
    /\ UNCHANGED <<lockHolder, lockQueue, call, transferOrder, unit>>

\* init() calls getVersion()
init ==
    /\ platform.pc = "opened"
    /\ platform' = [platform EXCEPT !.pc = "getVersion"]
    /\ Acquire(InitTask, [NewCall EXCEPT !.kind = "getVersion"])
    /\ UNCHANGED unit

\* init() resumes when getVersion() has settled
initAfterGetVersion ==
    /\ platform.pc = "getVersion"
    /\ call[InitTask].pc = "settled"
    /\ IF call[InitTask].state = "rejected"
       THEN /\ platform' =
                 IF call[InitTask].error = "LIBUSB_TRANSFER_TIMED_OUT"
                 THEN \* this.device?.reset(callback), then await delay(25000)
                      [platform EXCEPT !.pc = "resetWait", !.resetCallback = "pending"]
                 ELSE [platform EXCEPT !.pc = "initReturned"]
            /\ call' = [call EXCEPT ![InitTask] = [NewCall EXCEPT !.pc = "done"]]
            /\ UNCHANGED <<lockHolder, lockQueue, transferOrder>>
       ELSE IF NeedsUnlock(call[InitTask].value)
       THEN /\ platform' = [platform EXCEPT !.pc = "unlockKey",
                                            !.firmwareInfos = call[InitTask].value]
            /\ Acquire(InitTask, [NewCall EXCEPT !.kind = "unlockKey"])
       ELSE /\ platform' = [platform EXCEPT !.pc = "initReturned",
                                            !.firmwareInfos = call[InitTask].value]
            /\ call' = [call EXCEPT ![InitTask] = [NewCall EXCEPT !.pc = "done"]]
            /\ UNCHANGED <<lockHolder, lockQueue, transferOrder>>
    /\ UNCHANGED unit

\* the callback given to device.reset() runs: it logs, or it throws resetError
\* outside of every promise, an uncaught exception that ends the process
deviceResetCallback ==
    /\ platform.resetCallback = "pending"
    /\ platform.pc \in {"resetWait", "stopped"}
    /\ \E resetError \in BOOLEAN :
          platform' = IF resetError
                      THEN [platform EXCEPT !.pc = "crashed", !.resetCallback = "threw"]
                      ELSE [platform EXCEPT !.resetCallback = "logged"]
    /\ UNCHANGED <<lockHolder, lockQueue, call, transferOrder, unit>>

\* the 25 s after device.reset() have passed: init() throws
initResetElapsed ==
    /\ platform.pc = "resetWait"
    /\ platform' =
          [platform EXCEPT
              !.pc = "stopped", !.waited = 25000,
              !.error = "LIBUSB_TRANSFER_TIMED_OUT - Unable to communicate with Yokis USB key, device has been reset"]
    /\ UNCHANGED <<lockHolder, lockQueue, call, transferOrder, unit>>

\* init() resumes when unlockKey() has settled
initAfterUnlockKey ==
    /\ platform.pc = "unlockKey"
    /\ call[InitTask].pc = "settled"
    /\ platform' =
          IF call[InitTask].state = "rejected"
          THEN [platform EXCEPT !.pc = "stopped", !.error = call[InitTask].error]
          ELSE IF ~call[InitTask].value[2]
          THEN [platform EXCEPT !.pc = "stopped",
                                !.error = "Unable to unlock Yokis USB device"]
          ELSE [platform EXCEPT !.pc = "initReturned"]
    /\ call' = [call EXCEPT ![InitTask] = [NewCall EXCEPT !.pc = "done"]]
    /\ UNCHANGED <<lockHolder, lockQueue, transferOrder, unit>>

\* discoverDevices() after init() returned: an accessory per configured device
discoverDevices ==
    /\ platform.pc = "initReturned"
    /\ \E accessories \in {Undefined} \cup ConfigAccessories :
          platform' = [platform EXCEPT
                          !.pc = IF accessories = Undefined THEN "stopped" ELSE "registered",
                          !.firmwareInfos = Undefined,
                          !.accessories = accessories]
    /\ UNCHANGED <<lockHolder, lockQueue, call, transferOrder, unit>>

\* a handler of a registered accessory (setOn, getOn, updateAccessoryState) or
\* another client of the driver calls an order/status operation
Issue(t) ==
    /\ NoContinuationPending
    /\ platform.pc = "registered"
    /\ call[t].pc = "idle"
    /\ \A u \in ClientTasks : u < t => call[u].pc # "idle"
    /\ \E kind \in ClientKinds, k \in 1..Len(platform.accessories) :
          LET c == [NewCall EXCEPT !.kind = kind, !.moduleId = platform.accessories[k]]
          IN  IF BufferDataOf[kind][c.moduleId].ok
              THEN Acquire(t, c)
              ELSE /\ call' = [call EXCEPT
                                 ![t] = Reject(c, BufferDataOf[kind][c.moduleId].error)]
                   /\ UNCHANGED <<lockHolder, lockQueue, transferOrder>>
    /\ UNCHANGED <<platform, unit>>

\* the handler that awaited call t resumes with its value or its fault
HandlerResumes(t) ==
    /\ call[t].pc = "settled"
    /\ call' = [call EXCEPT ![t] = [NewCall EXCEPT !.pc = "done"]]
    /\ UNCHANGED <<platform, lockHolder, lockQueue, transferOrder, unit>>

\* what release() makes of the driver object
Released(p) ==
    [p EXCEPT !.interface = IF @ = "none" THEN @ ELSE "released",
              !.kernelDriver = IF p.interface # "none" /\ p.hasDetachedKernelDriver
                               THEN "attached" ELSE @,
              !.device = IF @ = "none" THEN @ ELSE "closed"]

\* a release() that waits for the lock to be free
releaseUnderLock ==
    /\ NoContinuationPending
    /\ lockHolder = NoTask
    /\ platform.interface = "open"
    /\ platform' = Released(platform)
    /\ UNCHANGED <<lockHolder, lockQueue, call, transferOrder, unit>>

\* a client of the driver calls release(): the interface is released, the
\* kernel driver attached if hasDetachedKernelDriver, the device closed
release ==
    /\ NoContinuationPending
    /\ platform.interface = "open"
    /\ platform' = Released(platform)
    /\ UNCHANGED <<lockHolder, lockQueue, call, transferOrder, unit>>

\* no helper function is being applied on its own
NoUnit == [fn |-> "none", pc |-> "idle", args |-> <<>>, out |-> <<>>]

\* the plugin started on a host without kernel driver bound to the interface
Init ==
    /\ platform = NewPlatform
    /\ lockHolder = NoTask
    /\ lockQueue = <<>>
    /\ call = [t \in Tasks |-> NewCall]
    /\ transferOrder = <<>>
    /\ unit = NoUnit

Next ==
    \/ initUsbDevice
    \/ init
    \/ initAfterGetVersion
    \/ deviceResetCallback
    \/ initResetElapsed
    \/ initAfterUnlockKey
    \/ discoverDevices
    \/ getVersion(InitTask)
    \/ unlockKey(InitTask)
    \/ TransferRejected(InitTask)
    \/ \E t \in ClientTasks :
          \/ Issue(t)
          \/ toggleLight(t)
          \/ toggleOn(t)
          \/ toggleOff(t)
          \/ getModuleStatus(t)
          \/ getJSONResponse(t)
          \/ TransferRejected(t)
          \/ HandlerResumes(t)

Spec == Init /\ [][Next]_vars

(***************************************************************************)
(* Scheduling: a submitted transfer completes or is rejected (libusb calls   *)
(* the callback of every transfer, at the latest when it times out), timers  *)
(* expire, and the continuation of a settled promise runs: the event loop    *)
(* runs a callback whenever one is ready.  Nothing obliges a client to call  *)
(* an operation.                                                             *)
(***************************************************************************)
\* the transfer call t waits for ends and the body of t runs on
TransferEnds(t) ==
    \/ getVersion(t)
    \/ unlockKey(t)
    \/ toggleLight(t)
    \/ toggleOn(t)
    \/ toggleOff(t)
    \/ getModuleStatus(t)
    \/ getJSONResponse(t)
    \/ TransferRejected(t)

\* the event loop runs a ready callback: of a transfer, of a timer of init(),
\* or the continuation of a settled call
EventLoopTurn ==
    \/ \E t \in Tasks : TransferEnds(t)
    \/ \E t \in ClientTasks : HandlerResumes(t)
    \/ initAfterGetVersion
    \/ initResetElapsed
    \/ initAfterUnlockKey

Fairness == WF_vars(EventLoopTurn)

FairSpec == Spec /\ Fairness

(***************************************************************************)
(* The plugin never calls release().  The driver with a client that calls   *)
(* it, on a host with or without a kernel driver bound to the interface:    *)
(***************************************************************************)
InitRelease ==
    /\ platform \in {[NewPlatform EXCEPT !.kernelDriver = k] : k \in {"none", "active"}}
    /\ lockHolder = NoTask
    /\ lockQueue = <<>>
    /\ call = [t \in Tasks |-> NewCall]
    /\ transferOrder = <<>>
    /\ unit = NoUnit

NextRelease ==
    \/ Next
    \/ release

SpecRelease == InitRelease /\ [][NextRelease]_vars

(***************************************************************************)
(* The helper functions applied on their own: buildCommand on every verb    *)
(* and on query strings of every length up to the bound, crcCalculation on  *)
(* buffers shorter than, as long as and longer than a packet,               *)
(* getChunkedBuffer and cleanBufferData on the buffers listed below         *)
(***************************************************************************)
\* 'datab.xml', a verb buildCommand does not know
DATAB_XML == <<100, 97, 116, 97, 98, 46, 120, 109, 108>>
XmlPaths == {COMMAND_XML, SERVER_XML, INFO_XML, DATAB_XML, <<>>}

\* query strings whose action is order: the order of toggleLight for each
\* module id length, and id=1&action=order
OrderQueries ==
    {QueryString("toggleLight", ModuleIdOfLength(n)) : n \in 0..MaxIdLength}
        \cup {<<105, 100, 61, 49, 38, 97, 99, 116, 105, 111, 110, 61, 111, 114, 100, 101, 114>>}
\* query strings whose action is getstatus: the query of getModuleStatus for
\* each module id length, and action=getstatus&action=order
StatusQueries ==
    {QueryString("getModuleStatus", ModuleIdOfLength(n)) : n \in 0..MaxIdLength}
        \cup {<<97, 99, 116, 105, 111, 110, 61, 103, 101, 116, 115, 116, 97, 116, 117, 115,
                38, 97, 99, 116, 105, 111, 110, 61, 111, 114, 100, 101, 114>>}
\* the empty string, unlockcode=0xB001, action=reset, Action=order, action
OtherQueries ==
    {<<>>,
     <<117, 110, 108, 111, 99, 107, 99, 111, 100, 101, 61, 48, 120, 66, 48, 48, 49>>,
     <<97, 99, 116, 105, 111, 110, 61, 114, 101, 115, 101, 116>>,
     <<65, 99, 116, 105, 111, 110, 61, 111, 114, 100, 101, 114>>,
     <<97, 99, 116, 105, 111, 110>>}
QueryStrings == OrderQueries \cup StatusQueries \cup OtherQueries

\* buffers of bytes 0..255: the byte at position k is (a * k + b) % 256
CrcLengths == {1, 2, 3, 63, 64, 65, 66, 100}
CrcInputs ==
    {[k \in 1..n |-> ((ab[1] * k) + ab[2]) % 256] :
        n \in CrcLengths,
        ab \in {<<1, 0>>, <<7, 3>>, <<255, 128>>, <<0, 255>>, <<37, 200>>}}

\* buffers of 7-bit characters for getChunkedBuffer: empty, shorter than, as
\* long as and longer than a chunk; at is the position of a line feed in
\* the buffer, 0 for a buffer without line terminator
ChunkLengths == {0, 1, 5, 63, 64, 65, 128, 129, 130}
ChunkInputs ==
    {[k \in 1..n |-> IF k = at THEN 10 ELSE 65 + (k % 26)] :
        n \in ChunkLengths, at \in {0, 1, 64, 65, 129}}
ChunkSizes == {4, YOKIS_PACKET_SIZE}

\* inbound buffers for cleanBufferData: the frames of the dongle, and short
\* buffers  x{}*00  x{0}*00  x{0}  x{}*  x00  x  (empty)  x0{}*0
\* command.xml-framed and plain payloads with a null byte inside
CleanInputs ==
    AllFrames
        \cup {<<1, 123, 125, 42, 0, 0>>, <<1, 123, 0, 125, 42, 0, 0>>, <<1, 123, 0, 125>>,
              <<1, 123, 125, 42>>, <<1, 0, 0>>, <<1>>, <<>>, <<1, 0, 123, 125, 42, 0>>,
              CommandFrame(1, <<123, 34, 97, 0, 34, 125, 42>>),
              PlainFrame(<<123, 34, 97, 0, 34, 125, 42>>)}

\* the applications that can be asked for
UnitCalls ==
    {[fn |-> "buildCommand", pc |-> "called", args |-> <<xmlPath, queryString>>,
      out |-> <<>>] : xmlPath \in XmlPaths, queryString \in QueryStrings}
        \cup {[fn |-> "crcCalculation", pc |-> "called", args |-> <<input>>, out |-> <<>>] :
                    input \in CrcInputs}
        \cup {[fn |-> "getChunkedBuffer", pc |-> "called", args |-> <<buffer, chunkSize>>,
               out |-> <<>>] : buffer \in ChunkInputs, chunkSize \in ChunkSizes}
        \cup {[fn |-> "cleanBufferData", pc |-> "called", args |-> <<input>>, out |-> <<>>] :
                    input \in CleanInputs}

\* buildCommand(xmlPath, queryString) returns or throws
CallBuildCommand ==
    /\ unit.fn = "buildCommand"
    /\ unit.pc = "called"
    /\ unit' = [unit EXCEPT !.pc = "returned",
                            !.out = <<buildCommand(unit.args[1], unit.args[2])>>]
    /\ UNCHANGED <<platform, lockHolder, lockQueue, call, transferOrder>>

\* crcCalculation(input) returns; it is applied twice to the same buffer
CallCrcCalculation ==
    /\ unit.fn = "crcCalculation"
    /\ Len(unit.out) < 2
    /\ unit' = [unit EXCEPT !.pc = "returned",
                            !.out = Append(unit.out, crcCalculation(unit.args[1]))]
    /\ UNCHANGED <<platform, lockHolder, lockQueue, call, transferOrder>>

\* getChunkedBuffer(buffer, chunkSize) returns the chunks
CallGetChunkedBuffer ==
    /\ unit.fn = "getChunkedBuffer"
    /\ unit.pc = "called"
    /\ unit' = [unit EXCEPT !.pc = "returned",
                            !.out = getChunkedBuffer(unit.args[1], unit.args[2])]
    /\ UNCHANGED <<platform, lockHolder, lockQueue, call, transferOrder>>

\* cleanBufferData(input) returns the text
CallCleanBufferData ==
    /\ unit.fn = "cleanBufferData"
    /\ unit.pc = "called"
    /\ unit' = [unit EXCEPT !.pc = "returned", !.out = <<cleanBufferData(unit.args[1])>>]
    /\ UNCHANGED <<platform, lockHolder, lockQueue, call, transferOrder>>

InitUnit ==
    /\ platform = NewPlatform
    /\ lockHolder = NoTask
    /\ lockQueue = <<>>
    /\ call = [t \in Tasks |-> NewCall]
    /\ transferOrder = <<>>
    /\ unit \in UnitCalls

NextUnit ==
    \/ CallBuildCommand
    \/ CallCrcCalculation
    \/ CallGetChunkedBuffer
    \/ CallCleanBufferData

SpecUnit == InitUnit /\ [][NextUnit]_vars


(***************************************************************************)
(* The transaction sequencer                                                *)
(***************************************************************************)
\* call t is inside its locked section
InSection(t) == call[t].pc \in InFlight
\* call t is in the queue of the lock
Waiting(t) == \E k \in 1..Len(lockQueue) : lockQueue[k] = t

\* C1: at every moment at most one device operation is inside its locked
\* section, it is the holder of the lock, and every other call that has been
\* issued and has not ended is waiting in the queue of the lock.
C1_MutualExclusion ==
    /\ \A t, u \in Tasks : InSection(t) /\ InSection(u) => t = u
    /\ \A t \in Tasks : InSection(t) <=> lockHolder = t
    /\ \A t \in Tasks : call[t].pc = "queued" <=> Waiting(t)
    /\ \A t \in Tasks :
          call[t].pc \notin {"idle", "settled", "done"} /\ ~InSection(t) => Waiting(t)

\* one call is inside its locked section while two others wait
C1_Witness == \E t \in ClientTasks : InSection(t) /\ Len(lockQueue) = 2

\* C2: in the global order of the physical transfers, the transfers of each
\* operation form one contiguous block: no operation owns two separate runs.
C2_TransfersContiguous ==
    \A a, b \in 1..Len(transferOrder) : transferOrder[a] = transferOrder[b] => a = b

\* a toggleOn issued while a getModuleStatus held the lock is reading its
\* answer after the getModuleStatus has ended
C2_Witness ==
    /\ transferOrder = <<0, 1, 2>>
    /\ call[2].kind = "toggleOn"
    /\ call[2].pc = "js_drain"
    /\ call[3].kind = "getModuleStatus"
    /\ call[3].pc = "queued"

\* C3: calls that find the lock busy enter in arrival order: while a call
\* that arrived earlier is still waiting, no call that arrived later enters
\* its locked section (calls are numbered in the order of arrival).
C3_ArrivalOrder ==
    [][\A a, b \in ClientTasks :
          (a < b /\ call[a].pc = "queued" /\ call[b].pc = "queued")
              => call'[b].pc \notin InFlight]_vars

\* the call that arrived first has entered and the one that arrived after it
\* still waits
C3_Witness ==
    /\ transferOrder = <<0, 1, 2>>
    /\ InSection(2)
    /\ lockQueue = <<3>>
    /\ call[1].pc = "done"

\* C4: an operation gives the lock back on every exit path: when the holder
\* ends, returning or failing, it no longer holds the lock, the lock is free
\* if nobody waits, and otherwise the oldest waiting call enters its section.
C4_LockReleasedOnEveryExit ==
    [][\A t \in Tasks :
          (lockHolder = t /\ call'[t].pc = "settled")
              => /\ lockHolder' # t
                 /\ IF lockQueue = <<>> THEN lockHolder' = NoTask
                    ELSE /\ lockHolder' = Head(lockQueue)
                         /\ call'[Head(lockQueue)].pc \in InFlight]_vars

\* a call has failed and the call queued behind it is inside its section
C4_Witness ==
    /\ call[1].pc = "settled"
    /\ call[1].state = "rejected"
    /\ InSection(2)
    /\ lockHolder = 2

(***************************************************************************)
(* The fragment reassembly loop                                             *)
(***************************************************************************)
\* C5: when the fragments never form valid JSON, getJSONResponse performs
\* all 15 iterations (15 re-query command transfers) and returns null: a call
\* that returns without a parsable accumulation returns null after 15
\* re-queries, and a frame the loop takes (one that carries more data or one
\* it accumulates) never makes it raise a fault.
C5_ExhaustionReturnsNull ==
    [][\A t \in ClientTasks :
          /\ (/\ call'[t].pc = "settled"
              /\ call'[t].state = "resolved"
              /\ ~canBeParsedAsJSON(call'[t].jsonResult))
                => /\ call'[t].value = JsNull
                   /\ call'[t].i = JSON_MAX_ITERATIONS
                   /\ call'[t].requeries = JSON_MAX_ITERATIONS
          /\ (/\ call[t].pc = "js_drain"
              /\ call'[t].state = "rejected"
              /\ \/ CarryingMoreDataOf[call[t].result]
                 \/ Accumulated(call[t], call[t].result))
                => call'[t].error \in TransferErrors]_vars

\* a call has returned null with a partial document in its accumulation
C5_Witness ==
    \E t \in ClientTasks :
        /\ call[t].pc = "settled"
        /\ call[t].state = "resolved"
        /\ call[t].value = JsNull
        /\ call[t].jsonResult # <<>>
        /\ call[t].requeries = JSON_MAX_ITERATIONS

\* C6: a fragment sequence of fewer than 15 frames whose decoded
\* concatenation is a complete JSON document yields that document: the loop
\* does not go on to a second re-query after a first frame whose decoded text
\* is a complete document.
C6_CompleteDocumentIsReturned ==
    \A t \in ClientTasks :
        (call[t].pc = "js_cmd" /\ call[t].i = 1)
            => ~canBeParsedAsJSON(cleanBufferDataOf[call[t].result])

\* C7: a fragment that carries an opening brace starts a new accumulation:
\* after the loop has taken such a frame, the accumulation is the decoded text
\* of that frame alone.
C7_BraceStartsNewAccumulation ==
    \A t \in ClientTasks :
        (/\ \/ call[t].pc = "js_cmd" /\ call[t].i > 0
            \/ call[t].pc = "settled" /\ call[t].state = "resolved"
         /\ ~CarryingMoreDataOf[call[t].result]
         /\ FirstJsonPartOf[call[t].result])
            => call[t].jsonResult = cleanBufferDataOf[call[t].result]

\* C8: a frame that does not carry the more-data marker, does not start an
\* accumulation and arrives while nothing is accumulated ends the call with
\* the unexpected-response fault (unless the transfer itself is rejected): no
\* further re-query is sent and nothing is returned.
C8_UnexpectedResponseFails ==
    [][\A t \in ClientTasks :
          (/\ call[t].pc = "js_drain"
           /\ ~CarryingMoreDataOf[call[t].result]
           /\ ~FirstJsonPartOf[call[t].result]
           /\ call[t].jsonResult = <<>>
           /\ call'[t] # call[t])
              => /\ call'[t].pc = "settled"
                 /\ call'[t].state = "rejected"
                 /\ \/ call'[t].error \in TransferErrors
                    \/ /\ call'[t].error = "Something went wrong, result: "
                       /\ call'[t].result = call[t].result]_vars

\* a call of getJSONResponse has failed on a closing fragment that arrived
\* with nothing accumulated
C8_Witness ==
    \E t \in ClientTasks :
        /\ call[t].pc = "settled"
        /\ call[t].state = "rejected"
        /\ call[t].error = "Something went wrong, result: "
        /\ call[t].result = FrameClose

\* C9: every iteration that neither returns nor fails is followed by a wait
\* of 250 ms before the next re-query command transfer is sent.
C9_WaitBeforeEveryRequery ==
    \A t \in ClientTasks :
        (call[t].pc = "js_cmd" /\ call[t].i > 0) => call[t].lastDelay = 250

(***************************************************************************)
(* Startup                                                                  *)
(***************************************************************************)
\* C10: a failed version query aborts startup: the platform registers its
\* accessories only after init() has returned a firmware-info result.
C10_InitFailureAbortsStartup ==
    [][(platform.pc # "registered" /\ platform'.pc = "registered")
          => platform.firmwareInfos # Undefined]_vars

\* C11: when the version query fails with the transfer-timed-out fault,
\* init() triggers a device reset, waits the fixed 25 s and then fails with
\* the terminal initialization error; on that path no unlock handshake is
\* attempted and the version query is not retried.
C11_TimeoutResetsWaitsThenFails ==
    [][/\ (/\ platform.pc = "getVersion"
           /\ call[InitTask].pc = "settled"
           /\ call[InitTask].state = "rejected"
           /\ call[InitTask].error = "LIBUSB_TRANSFER_TIMED_OUT"
           /\ platform' # platform)
              => /\ platform'.pc = "resetWait"
                 /\ platform'.resetCallback = "pending"
                 /\ platform'.waited = 0
       /\ (platform.pc = "resetWait" /\ platform'.pc # "resetWait")
              => /\ platform'.pc = "stopped"
                 /\ platform'.waited = 25000
                 /\ platform'.error = "LIBUSB_TRANSFER_TIMED_OUT - Unable to communicate with Yokis USB key, device has been reset"
       /\ platform.resetCallback # "none"
              => /\ call'[InitTask] = call[InitTask]
                 /\ transferOrder' = transferOrder]_vars

\* C12: init() performs the unlock handshake if and only if the version query
\* reported a firmware version of 1255 or greater: unlockKey() starts only
\* from a getVersion() that has returned such a version and has released the
\* lock, it starts whenever getVersion() returned such a version, and it is
\* never in progress for a lower version.
C12_UnlockIffVersionAtLeast1255 ==
    [][/\ (call'[InitTask].kind = "unlockKey" /\ call[InitTask].kind # "unlockKey")
              => /\ call[InitTask].kind = "getVersion"
                 /\ call[InitTask].pc = "settled"
                 /\ call[InitTask].state = "resolved"
                 /\ call[InitTask].value[2] >= 1255
                 /\ lockHolder # InitTask
       /\ (platform.pc = "getVersion" /\ platform'.pc # "getVersion")
              => (call'[InitTask].kind = "unlockKey"
                    <=> (/\ call[InitTask].state = "resolved"
                         /\ call[InitTask].value[2] >= 1255))
       /\ call[InitTask].kind = "unlockKey" => platform.firmwareInfos[2] >= 1255]_vars

\* the unlock command is in flight for the firmware 1255, after the version
\* query has made its three transfers
C12_Witness ==
    /\ call[InitTask].pc = "uk_cmd1"
    /\ platform.firmwareInfos[2] = 1255
    /\ lockHolder = InitTask

\* C13: the unlock handshake fails initialization if any validation step does
\* not match: a first echo without the server.xml marker fails unlockKey()
\* before the empty server.xml command is sent, a follow-up response without
\* the marker or with a status other than "success" makes unlockKey() fail or
\* return false, and init() then fails.
C13_UnlockValidationFailsInit ==
    [][/\ (/\ call[InitTask].pc = "uk_drain1"
           /\ ~Contains(call[InitTask].result, SERVER_XML)
           /\ call'[InitTask] # call[InitTask])
              => /\ call'[InitTask].pc = "settled"
                 /\ call'[InitTask].state = "rejected"
       /\ (/\ call[InitTask].pc = "uk_drain2"
           /\ call[InitTask].result # FrameServerSuccess
           /\ call'[InitTask] # call[InitTask])
              => /\ call'[InitTask].pc = "settled"
                 /\ \/ call'[InitTask].state = "rejected"
                    \/ ~call'[InitTask].value[2]
       /\ (/\ platform.pc = "unlockKey"
           /\ call[InitTask].pc = "settled"
           /\ \/ call[InitTask].state = "rejected"
              \/ ~call[InitTask].value[2]
           /\ platform' # platform)
              => /\ platform'.pc = "stopped"
                 /\ platform'.error # ""]_vars

\* C14: the driver accepts order/status operations only after reaching Ready:
\* a toggleLight, toggleOn, toggleOff or getModuleStatus call is issued or has
\* a transfer in flight only once the accessories are registered, and the
\* accessories are registered only when init() has returned after a version
\* query that succeeded (its firmwareInfos is defined).
C14_OperationsOnlyWhenReady ==
    [][/\ \A t \in ClientTasks :
             call'[t].pc # "idle" => platform'.pc = "registered"
       /\ (platform.pc # "registered" /\ platform'.pc = "registered")
             => /\ platform.pc = "initReturned"
                /\ platform.firmwareInfos # Undefined]_vars

\* C15: a failed transfer fails the whole enclosing operation and is never
\* retried: when the callback of a transfer reports a fault, the operation
\* ends rejected with that fault and gives up the lock, and an operation that
\* has ended in failure or has been handed back to its caller submits no
\* further transfer.
C15_FailedTransferFailsOperation ==
    [][\A t \in Tasks :
          /\ TransferRejected(t)
                => /\ call'[t].pc = "settled"
                   /\ call'[t].state = "rejected"
                   /\ call'[t].error \in TransferErrors
                   /\ lockHolder' # t
          /\ (call[t].pc = "settled" /\ call[t].state = "rejected")
                => call'[t].pc \in {"settled", "done"}
          /\ call[t].pc = "done" => call'[t].pc = "done"]_vars

\* a status query has failed on a transfer fault and the order queued behind
\* it has submitted its command
C15_Witness ==
    \E t, u \in ClientTasks :
        /\ call[t].kind = "getModuleStatus"
        /\ call[t].pc = "settled"
        /\ call[t].state = "rejected"
        /\ call[t].error = "LIBUSB_TRANSFER_ERROR"
        /\ call[u].pc = "tg_cmd"

(***************************************************************************)
(* Packets                                                                  *)
(***************************************************************************)
\* C16: every buffer submitted to the command endpoint or to the interrupt
\* endpoint, in every operation and for every module id length, is at most
\* 64 bytes long.
C16_PacketsAtMost64Bytes ==
    \A t \in Tasks :
        call[t].pc \in InFlight => Len(Submitted(call[t])) <= YOKIS_PACKET_SIZE

\* the second packet of a status command of three packets is in flight: its
\* chunk has 65 bytes
C16_Witness ==
    \E t \in ClientTasks :
        /\ call[t].pc = "ms_cmd"
        /\ call[t].sent = 2
        /\ Len(bufferDataChunks(call[t])[2]) = 65
        /\ Len(Submitted(call[t])) = 64

(***************************************************************************)
(* The command builder and the checksum                                     *)
(***************************************************************************)
\* buildCommand has returned a buffer for the verb and the query string asked
Built == unit.fn = "buildCommand" /\ unit.pc = "returned" /\ unit.out[1].ok
\* the checksum of the content of the command that has been built
BuiltCrc == crcCalculation(bufferToSendOf(unit.args[1], unit.args[2]))
\* the length of the content: header, verb, separator and query string
BuiltContentLen == Len(bufferToSendOf(unit.args[1], unit.args[2]))
\* the command is an order: verb command.xml and action order
BuiltOrder == unit.args[1] = COMMAND_XML /\ unit.args[2] \in OrderQueries

\* C17 (as claimed): for every command built by buildCommand the checksum
\* byte is the last byte of the buffer that is transmitted.
C17_ChecksumIsLastByte ==
    Built => /\ Len(unit.out[1].buffer) = BuiltContentLen + 2
             /\ unit.out[1].buffer[Len(unit.out[1].buffer)] = BuiltCrc

\* C17 (amended): for action getstatus and for the verbs server.xml and
\* info.xml the checksum byte is the last byte of the buffer buildCommand
\* returns, right after the content and its 0x00 separator.  For action order
\* the buffer is forced to 64 bytes: the checksum byte follows the content and
\* its separator and is followed by zero padding when the content has fewer
\* than 62 bytes, it is the last byte when the content has 62 bytes, and it is
\* cut off when the content has more than 62 bytes.
C17_ChecksumFollowsContent ==
    Built =>
        IF BuiltOrder
        THEN /\ Len(unit.out[1].buffer) = YOKIS_PACKET_SIZE
             /\ \A k \in 1..YOKIS_PACKET_SIZE :
                   unit.out[1].buffer[k] =
                      IF k <= BuiltContentLen
                      THEN bufferToSendOf(unit.args[1], unit.args[2])[k]
                      ELSE IF k = BuiltContentLen + 2 THEN BuiltCrc ELSE 0
        ELSE /\ Len(unit.out[1].buffer) = BuiltContentLen + 2
             /\ SubSeq(unit.out[1].buffer, 1, BuiltContentLen)
                   = bufferToSendOf(unit.args[1], unit.args[2])
             /\ unit.out[1].buffer[BuiltContentLen + 1] = 0
             /\ unit.out[1].buffer[BuiltContentLen + 2] = BuiltCrc

\* an order has been built whose checksum byte is followed by zero padding
C17_Witness ==
    /\ Built
    /\ BuiltOrder
    /\ BuiltContentLen + 2 < YOKIS_PACKET_SIZE
    /\ BuiltCrc # 0
    /\ unit.out[1].buffer[BuiltContentLen + 2] = BuiltCrc
    /\ unit.out[1].buffer[YOKIS_PACKET_SIZE] = 0

\* bit b of the byte n
Bit(n, b) == (n \div (2 ^ b)) % 2
\* bit b of the xor of the bytes of input that follow the first
ParityOfBit(input, b) == Cardinality({k \in 2..Len(input) : Bit(input[k], b) = 1}) % 2
\* the xor of the bytes of input that follow the first
XorOfAllButFirst(input) ==
    ParityOfBit(input, 0) + (2 * ParityOfBit(input, 1)) + (4 * ParityOfBit(input, 2))
        + (8 * ParityOfBit(input, 3)) + (16 * ParityOfBit(input, 4))
        + (32 * ParityOfBit(input, 5)) + (64 * ParityOfBit(input, 6))
        + (128 * ParityOfBit(input, 7))

\* C18: for every input buffer, shorter than, as long as or longer than 64
\* bytes, crcCalculation returns the bitwise xor of all the bytes of the input
\* except the first, and it returns the same byte when applied again.
C18_CrcIsXorOfAllButFirstByte ==
    unit.fn = "crcCalculation"
        => /\ \A k \in 1..Len(unit.out) : unit.out[k] = XorOfAllButFirst(unit.args[1])
           /\ Len(unit.out) = 2 => unit.out[1] = unit.out[2]

\* crcCalculation has been applied twice to a buffer longer than a packet
\* whose first byte is not zero
C18_Witness ==
    /\ unit.fn = "crcCalculation"
    /\ Len(unit.out) = 2
    /\ Len(unit.args[1]) > YOKIS_PACKET_SIZE
    /\ unit.args[1][1] # 0
    /\ unit.out[1] # 0

\* C19: with verb command.xml and action order buildCommand yields a buffer of
\* exactly 64 bytes for every query-string length; with action getstatus or
\* verb server.xml or info.xml the buffer has 7 + 13 + 4 bytes, the query
\* string, 1 separator byte and 1 checksum byte, never forced to 64.
C19_OrderIs64BytesOthersFitContent ==
    Built => Len(unit.out[1].buffer) =
                IF BuiltOrder THEN 64 ELSE 7 + 13 + 4 + Len(unit.args[2]) + 1 + 1

\* an order whose content alone exceeds 64 bytes has been built
C19_Witness ==
    /\ Built
    /\ BuiltOrder
    /\ 7 + 13 + 4 + Len(unit.args[2]) > 64
    /\ Len(unit.out[1].buffer) = 64

RECURSIVE ChunkPayloads(_)
ChunkPayloads(chunks) ==
    IF chunks = <<>> THEN <<>>
    ELSE IF Len(chunks) = 1 THEN chunks[1]
    ELSE ChunkPayloads(SubSeq(chunks, 1, Len(chunks) - 1)) \o Tail(chunks[Len(chunks)])

\* C21: for every input buffer, shorter or longer than the chunk size, the
\* payloads of the chunks of getChunkedBuffer, the 0x07 marker taken off every
\* chunk after the first, concatenate to the input exactly, and the first
\* chunk is a prefix of the input without marker.
C21_ChunksRoundTrip ==
    (unit.fn = "getChunkedBuffer" /\ unit.pc = "returned")
        => /\ ChunkPayloads(unit.out) = unit.args[1]
           /\ \A k \in 2..Len(unit.out) : unit.out[k][1] = 7
           /\ unit.out # <<>>
                => unit.out[1] = SubSeq(unit.args[1], 1, Len(unit.out[1]))

\* b without its run of trailing null bytes and without the byte before the run
WithoutTrailer(b) ==
    LET kept == {k \in 1..Len(b) : b[k] # 0}
    IN  IF kept = {} THEN <<>>
        ELSE SubSeq(b, 1, (CHOOSE k \in kept : \A m \in kept : m <= k) - 1)

\* C22: when the buffer left by the first two steps of cleanBufferData ends
\* with a null byte, the decoder removes exactly the run of trailing nulls and
\* the one byte before it and keeps every byte before them, null bytes inside
\* the payload included; when it ends with another byte the content is left
\* as it is.  The text returned is what remains, stripped at both ends.
C22_OnlyTrailerRemoved ==
    (unit.fn = "cleanBufferData" /\ unit.pc = "returned")
        => LET input == RemoveCommandName(Slice(unit.args[1], 1))
           IN  unit.out[1] =
                    TrimRight(TrimLeft(IF input # <<>> /\ input[Len(input)] = 0
                                       THEN WithoutTrailer(input) ELSE input))

(***************************************************************************)
(* The firmware information                                                 *)
(***************************************************************************)
\* the position of fV in the text of a version frame
VersionTextAt(s) == CHOOSE p \in 1..Len(s) : OccursAt(s, <<102, 86>>, p)

\* C23: the firmware information getVersion returns carries as version the
\* four digits that follow fV, and as date the calendar date whose day is
\* the next two digits, whose month is the two digits after the first slash
\* and whose year is the last four digits: for fV154201/03/2022 the version
\* 1542 and the date of day 1, month 3, year 2022.
C23_VersionAndCalendarDate ==
    call[InitTask].pc = "gv_drain"
        => LET s == call[InitTask].result
               p == VersionTextAt(s)
           IN  /\ call[InitTask].value[2] = parseInt(SubSeq(s, p + 2, p + 5))
               /\ call[InitTask].value[3] =
                    <<parseInt(SubSeq(s, p + 12, p + 15)),
                      parseInt(SubSeq(s, p + 9, p + 10)),
                      parseInt(SubSeq(s, p + 6, p + 7))>>
               /\ s = FrameVersion1542
                    => call[InitTask].value = <<"firmware", 1542, <<2022, 3, 1>>>>

(***************************************************************************)
(* release()                                                                *)
(***************************************************************************)
\* C24: release() is not synchronized with the lock: whenever the interface
\* is open and no promise continuation is pending, release() can run, also
\* while a call holds the lock, and it releases the interface and closes the
\* device leaving the lock, its queue and the calls as they are.
C24_ReleaseIgnoresLock ==
    /\ []((platform.interface = "open" /\ NoContinuationPending) => ENABLED release)
    /\ [][platform'.interface # platform.interface /\ platform'.interface = "released"
            => /\ platform'.device = "closed"
               /\ lockHolder' = lockHolder /\ lockQueue' = lockQueue /\ call' = call]_vars

\* release() has released the interface and closed the device while a call
\* holds the lock and waits for an acknowledgement it has yet to read
C24_Witness ==
    /\ platform.interface = "released"
    /\ platform.device = "closed"
    /\ \E t \in ClientTasks : lockHolder = t /\ call[t].pc = "ack_read"

\* C29: a release() that follows an initUsbDevice() that detached an active
\* kernel driver attaches it again when it releases the interface, and a
\* release() that follows an initUsbDevice() that detached none attaches none.
C29_ReleaseReattachesKernelDriver ==
    [][platform'.interface # platform.interface /\ platform'.interface = "released"
        => /\ platform.kernelDriver = "detached" => platform'.kernelDriver = "attached"
           /\ platform.kernelDriver = "none" => platform'.kernelDriver = "none"]_vars

(***************************************************************************)
(* Termination                                                              *)
(***************************************************************************)
\* C25: when every submitted transfer completes or is rejected, every device
\* operation that was called terminates and every call that holds the lock
\* gives it up: from some point on no call is queued or inside its section
\* and the lock is free; and a queued call leaves the queue only to enter
\* its locked section, so every queued call does enter it.
C25_OperationsTerminate ==
    /\ <>[](/\ lockHolder = NoTask
            /\ \A t \in Tasks : call[t].pc \notin InFlight \cup {"queued"})
    /\ [][\A t \in Tasks :
            (call[t].pc = "queued" /\ call'[t].pc # "queued")
                => (call'[t].pc \in InFlight /\ lockHolder' = t)]_vars

\* an order waits in the queue behind a status request that is reading the
\* frames of its fifteenth re-query
C25_Witness ==
    \E t, u \in ClientTasks :
        /\ lockHolder = t
        /\ call[t].pc = "js_read"
        /\ call[t].i = JSON_MAX_ITERATIONS - 1
        /\ call[u].pc = "queued"

(***************************************************************************)
(* The reads of the operations                                              *)
(***************************************************************************)
\* call t ends because the transfer it waits for was rejected
TransferFault(t) == call'[t].state = "rejected" /\ call'[t].error \in TransferErrors

\* C26: inbound reads come in pairs: a content read that completes (version,
\* unlock echo, acknowledgement, reassembly frame) is followed by a drain read
\* before the operation sends a command, fails or gives the lock back, also
\* when the frame read fails the validation; and a drain read is followed by
\* no second read.
C26_ReadsComeInPairs ==
    [][\A t \in Tasks :
        /\ (call[t].pc \in InFlightRead /\ call'[t] # call[t] /\ ~TransferFault(t))
                => call'[t].pc \in InFlightDrain
        /\ (call[t].pc \in InFlightDrain /\ call'[t] # call[t])
                => call'[t].pc \notin InFlightRead \cup InFlightDrain]_vars

\* the steps of getJSONResponse
JsonSteps == {"js_cmd", "js_read", "js_drain"}

\* C27: an order or status operation enters getJSONResponse only from the
\* drain read that follows an acknowledgement matching command.xml ... k;
\* when the acknowledgement does not match, the operation fails and no
\* re-query packet is sent; and a call inside getJSONResponse holds the lock.
C27_ReassemblyOnlyAfterAcknowledgement ==
    /\ [](\A t \in Tasks : call[t].pc \in JsonSteps => lockHolder = t)
    /\ [][\A t \in Tasks :
            /\ (call[t].pc \notin JsonSteps /\ call'[t].pc \in JsonSteps)
                    => /\ call[t].pc = "ack_drain"
                       /\ AcknowledgedOf[call[t].result]
                       /\ call[t].kind \in ClientKinds
            /\ (call[t].pc = "ack_drain" /\ ~AcknowledgedOf[call[t].result]
                    /\ call'[t] # call[t])
                    => /\ call'[t].pc = "settled"
                       /\ call'[t].state = "rejected"
                       /\ call'[t].requeries = 0]_vars

\* an order sends its first re-query after an acknowledgement, while the
\* order of another handler has failed on a frame that is no acknowledgement
C27_Witness ==
    \E t, u \in ClientTasks :
        /\ call[t].pc = "js_cmd"
        /\ call[t].i = 0
        /\ call[t].result = FrameAck
        /\ lockHolder = t
        /\ call[u].pc = "done"
        /\ u < t

\* C28: in getJSONResponse a frame that matches the carrying-more-data pattern
\* leaves the accumulation as it is and takes one turn of the loop, also when
\* the frame holds an opening brace or an accumulation is in progress: the
\* loop waits 250 ms and goes on, or returns after the fifteenth turn.
C28_MarkerFrameOnlyCostsOneTurn ==
    [][\A t \in ClientTasks :
        (call[t].pc = "js_drain" /\ CarryingMoreDataOf[call[t].result]
            /\ call'[t] # call[t] /\ ~TransferFault(t))
            => /\ call'[t].jsonResult = call[t].jsonResult
               /\ call'[t].fragments = call[t].fragments
               /\ call'[t].i = call[t].i + 1
               /\ IF call[t].i + 1 < JSON_MAX_ITERATIONS
                  THEN call'[t].pc = "js_cmd" /\ call'[t].lastDelay = 250
                  ELSE call'[t].pc = "settled" /\ call'[t].state = "resolved"]_vars

\* a frame that carries the marker and an opening brace has been read while
\* an accumulation was in progress, and the next re-query is on its way
C28_Witness ==
    \E t \in ClientTasks :
        /\ call[t].pc = "js_cmd"
        /\ call[t].result = FrameErrorDoc
        /\ call[t].jsonResult # <<>>
        /\ call[t].i >= 2

(***************************************************************************)
(* The packets of the status command                                        *)
(***************************************************************************)
\* C30: getModuleStatus transmits the whole command: once all its packets
\* are sent, their payloads in order, the 0x07 marker taken off every packet
\* after the first, start with every byte of the buffer buildCommand returned.
C30_StatusCommandSentWhole ==
    \A t \in ClientTasks :
        (call[t].kind = "getModuleStatus" /\ call[t].pc = "ack_read")
            => LET buffer == BufferDataOf["getModuleStatus"][call[t].moduleId].buffer
                   sent == ChunkPayloads(ChunkPacketsOf[call[t].moduleId])
               IN  /\ Len(sent) >= Len(buffer)
                   /\ SubSeq(sent, 1, Len(buffer)) = buffer

====
